---- MODULE Spec2Model ----
(***************************************************************************)
(* A model of drivers/rpmsg/rpmsg_omx.c: the OMX offloading rpmsg driver.  *)
(*                                                                         *)
(* One service (struct rpmsg_omx_service), a fixed pool of instance slots  *)
(* (struct rpmsg_omx_instance, one per successful or attempted open), the  *)
(* client contexts that call the file operations, the rpmsg receive        *)
(* context that runs rpmsg_omx_cb, and the remoteproc context that runs    *)
(* rpmsg_omx_probe and rpmsg_omx_remove.                                   *)
(*                                                                         *)
(* A critical section of omx->lock or omxserv->lock that contains no wait  *)
(* is one step.  rpmsg_omx_remove holds omxserv->lock over its whole loop, *)
(* so that lock is a variable (servLock).  Every wait (completion, wait    *)
(* queue) is a program point of its own.                                   *)
(***************************************************************************)
EXTENDS Integers, Sequences, FiniteSets, TLC

(* ---- bounds of the model ---- *)
\* client calls made in one behaviour
MaxOps == 4
\* client calls made in one behaviour in which two contexts call connect
MaxOpsTwo == 3
\* connect responses handed to rpmsg_omx_cb in one behaviour
MaxRsp == 2
\* raw frames queued on one instance in one behaviour
MaxRaw == 2
\* remote processor crashes in one behaviour
MaxCrashes == 1
\* client calls made in one behaviour with two instances
MaxOpsCrash == 3
\* pin and unpin ioctls in one behaviour
MaxDmaOps == 3
\* client calls, buffer ioctls and others, made in one behaviour of one context
\* that pins and unpins
MaxOpsPin == 5
\* calls made in one behaviour that exercises every operation
MaxOpsLocks == 3

(* ---- the finite universes ---- *)
\* client execution contexts
Threads == {"t1", "t2"}
\* instance slots: one struct rpmsg_omx_instance each, never reused
Conns == {1, 2}
\* remote addresses a connect response may offer
Addrs == {7, 8}
\* dma-buf file descriptors a client may name
Fds == {3, 4}
\* read(2) buffer sizes
ReadLens == {1, 3}

(* ---- program constants ---- *)
OMX_UNCONNECTED == "OMX_UNCONNECTED"
OMX_CONNECTED == "OMX_CONNECTED"
OMX_FAIL == "OMX_FAIL"

OMX_CONN_RSP == "OMX_CONN_RSP"
OMX_RAW_MSG == "OMX_RAW_MSG"
OMX_CONN_REQ == "OMX_CONN_REQ"
OMX_DISCONNECT == "OMX_DISCONNECT"
\* a type value the switch of rpmsg_omx_cb has no case for
OMX_OTHER == "OMX_OTHER"

\* sizeof(struct omx_msg_hdr): type, flags, len
HdrSize == 12
\* sizeof(struct omx_conn_rsp): status, addr
RspSize == 8
\* sizeof(kbuf) in rpmsg_omx_write
KbufSize == 512

RPC_OMX_MAP_INFO_NONE == 0
RPC_OMX_MAP_INFO_THREE_BUF == 3

POLLIN == "POLLIN"
POLLRDNORM == "POLLRDNORM"
POLLOUT == "POLLOUT"
POLLWRNORM == "POLLWRNORM"
POLLERR == "POLLERR"

\* complete_all(): the completion stays done for every later waiter
DONE_ALL == -1

NoOmx == 0
NoLock == "free"
RmCtx == "remove"

VARIABLES
    \* ---- struct rpmsg_omx_service ----
    registered,   \* the service is in rpmsg_omx_services (and has its device)
    rpdev,        \* omxserv->rpdev is non-NULL
    comp,         \* omxserv->comp is completed
    servLock,     \* holder of omxserv->lock
    list,         \* omxserv->list, head first
    \* ---- struct rpmsg_omx_instance, per slot ----
    inst,         \* "free", "init" (allocated by a running open), "open",
                  \* "closing" (release runs), "closed" (freed)
    state,        \* omx->state
    dst,          \* omx->dst
    queue,        \* omx->queue
    reply_arrived,\* omx->reply_arrived: pending completions, or DONE_ALL
    ept,          \* omx->ept: "none", "live", "dead" (destroyed)
    dma_idr,      \* omx->dma_idr: the ids in use, each with its descriptor
    dma,          \* every struct rpmsg_omx_dma_info that was put in an idr, or
                  \* not given back whole, in the order this happened
    pinned,       \* per slot: the handles whose pin returned 0 and that no
                  \* unpin that returned 0, and no release, has taken since
    \* ---- client contexts ----
    pc,           \* program point
    op,           \* the file operation being run (or last run)
    omx,          \* the instance it runs on (filp->private_data)
    loc,          \* its arguments and locals
    ret,          \* its return value
    \* ---- rpmsg receive context (rpmsg_omx_cb) ----
    cbpc, cbomx, cbmsg,
    \* ---- remoteproc context (rpmsg_omx_remove) ----
    rmpc, rmleft, rmcur,
    \* ---- history ----
    enq,          \* per slot: every payload ever appended to omx->queue, in order
    ndeq,         \* per slot: frames dequeued by rpmsg_omx_read
    nokrd,        \* per slot: dequeues whose copy_to_user succeeded
    eptfree,      \* per slot: calls of rpmsg_destroy_ept(omx->ept)
    nops,         \* client calls made, the buffer ioctls aside
    ndma,         \* pin and unpin ioctls made
    nrx,          \* connect responses handled by rpmsg_omx_cb
    ncrash        \* crashes of the remote processor

svars == <<registered, rpdev, comp, servLock, list>>
ivars == <<inst, state, dst, queue, reply_arrived, ept, dma_idr, dma, pinned>>
tvars == <<pc, op, omx, loc, ret>>
cbvars == <<cbpc, cbomx, cbmsg>>
rmvars == <<rmpc, rmleft, rmcur>>
hvars == <<enq, ndeq, nokrd, eptfree, nops, ndma, nrx, ncrash>>
vars == <<svars, ivars, tvars, cbvars, rmvars, hvars>>

(* ---- helpers ---- *)
Min(a, b) == IF a < b THEN a ELSE b

\* return values: a count (or 0), or a negative errno
Ok(n) == [err |-> "none", val |-> n]
Err(e) == [err |-> e, val |-> 0]
IsErr(r) == r.err # "none"

\* the first n bytes of a frame
Prefix(s, n) == SubSeq(s, 1, Min(n, Len(s)))

\* the locals every call starts from.  An argument of a call (O_NONBLOCK, the
\* size and validity of the user buffer, the handles in a payload) is drawn at
\* the step that first reads it.
Loc0 ==
    [wret |-> Ok(0), sent |-> FALSE, tried |-> FALSE, data |-> <<>>, mask |-> {}, maptype |-> 0,
     fd |-> 0, id |-> 0, dma |-> 0, pa |-> 0, da |-> 0, waited |-> FALSE, failed |-> FALSE, unc |-> FALSE, early |-> FALSE, late |-> FALSE,
     hit |-> FALSE]

\* an idr with no id in use
NoIdr == [id \in {} |-> 0]

\* no frame in the hands of rpmsg_omx_cb
NoMsg == [type |-> OMX_OTHER, len |-> 0, hlen |-> 0, status |-> 0, addr |-> 0, junk |-> 0]

Idle(t) == pc[t] \in {"idle", "ret"}

\* a client may call a file operation of an open file
CanCall(t, c) == Idle(t) /\ nops < MaxOps /\ inst[c] = "open"

\* the call of a file operation: its name, its instance and its arguments
Call(t, name, c, args) ==
    /\ CanCall(t, c)
    /\ nops' = nops + 1
    /\ UNCHANGED ndma
    /\ op' = [op EXCEPT ![t] = name]
    /\ omx' = [omx EXCEPT ![t] = c]
    /\ loc' = [loc EXCEPT ![t] = args]

Return(t, r) == /\ pc' = [pc EXCEPT ![t] = "ret"]
                /\ ret' = [ret EXCEPT ![t] = r]

Goto(t, p) == pc' = [pc EXCEPT ![t] = p]

Init ==
    /\ registered = TRUE
    /\ rpdev = TRUE
    /\ comp = TRUE
    /\ servLock = NoLock
    /\ list = <<>>
    /\ inst = [c \in Conns |-> "free"]
    /\ state = [c \in Conns |-> OMX_UNCONNECTED]
    /\ dst = [c \in Conns |-> 0]
    /\ queue = [c \in Conns |-> <<>>]
    /\ reply_arrived = [c \in Conns |-> 0]
    /\ ept = [c \in Conns |-> "none"]
    /\ dma_idr = [c \in Conns |-> NoIdr]
    /\ dma = <<>>
    /\ pinned = [c \in Conns |-> {}]
    /\ pc = [t \in Threads |-> "idle"]
    /\ op = [t \in Threads |-> "none"]
    /\ omx = [t \in Threads |-> NoOmx]
    /\ loc = [t \in Threads |-> Loc0]
    /\ ret = [t \in Threads |-> Ok(0)]
    /\ cbpc = "idle"
    /\ cbomx = NoOmx
    /\ cbmsg = NoMsg
    /\ rmpc = "idle"
    /\ rmleft = <<>>
    /\ rmcur = NoOmx
    /\ enq = [c \in Conns |-> <<>>]
    /\ ndeq = [c \in Conns |-> 0]
    /\ nokrd = [c \in Conns |-> 0]
    /\ eptfree = [c \in Conns |-> 0]
    /\ nops = 0
    /\ ndma = 0
    /\ nrx = 0
    /\ ncrash = 0

(***************************************************************************)
(* rpmsg_omx_open                                                          *)
(***************************************************************************)
\* the slot kzalloc hands out: the lowest one never used
FreeSlots == {c \in Conns : inst[c] = "free"}
NewSlot == CHOOSE c \in FreeSlots : \A d \in FreeSlots : c <= d

\* a faulty variant of open_err: the instance is not freed
open_err_keeps(t, r) ==
    /\ omx' = [omx EXCEPT ![t] = NoOmx]
    /\ Return(t, r)
    /\ UNCHANGED inst

\* kfree(omx) on the error path: the instance was never published
open_err(t, r) ==
    /\ inst' = [inst EXCEPT ![omx[t]] = "free"]
    /\ omx' = [omx EXCEPT ![t] = NoOmx]
    /\ Return(t, r)

\* lines 461-469: allocate and initialise the instance
rpmsg_omx_open(t) ==
    /\ Idle(t) /\ nops < MaxOps /\ registered
    /\ FreeSlots # {}
    /\ nops' = nops + 1
    /\ UNCHANGED ndma
    /\ op' = [op EXCEPT ![t] = "open"]
    /\ loc' = [loc EXCEPT ![t] = Loc0]
    /\ \/ /\ inst' = [inst EXCEPT ![NewSlot] = "init"]
          /\ omx' = [omx EXCEPT ![t] = NewSlot]
          /\ Goto(t, "open_lock")
          /\ UNCHANGED ret
       \/ \* kzalloc fails
          /\ Return(t, Err("ENOMEM"))
          /\ UNCHANGED <<inst, omx>>
    /\ UNCHANGED <<svars, state, dst, queue, reply_arrived, ept, dma_idr, dma, pinned, cbvars,
                   rmvars, enq, ndeq, nokrd, eptfree, nrx, ncrash>>

\* lines 490-500, under omxserv->lock: create the endpoint and join the list
open_create_ept(t) ==
    \/ /\ ept' = [ept EXCEPT ![omx[t]] = "live"]
       /\ list' = <<omx[t]>> \o list
       /\ Goto(t, "open_init")
       /\ UNCHANGED <<inst, omx, ret>>
    \/ \* rpmsg_create_ept fails
       /\ open_err(t, Err("ENOMEM"))
       /\ UNCHANGED <<ept, list>>

\* lines 471-500: the first pass under omxserv->lock
open_lock(t) ==
    /\ pc[t] = "open_lock"
    /\ servLock = NoLock
    /\ IF ~rpdev
         THEN \/ \* O_NONBLOCK
                 /\ open_err(t, Err("EBUSY"))
                 /\ UNCHANGED <<ept, list>>
                 /\ UNCHANGED loc
              \/ /\ Goto(t, "open_wait")
                 /\ loc' = [loc EXCEPT ![t].waited = TRUE]
                 /\ UNCHANGED <<inst, omx, ret, ept, list>>
         ELSE open_create_ept(t) /\ UNCHANGED loc
    /\ UNCHANGED <<registered, rpdev, comp, servLock, state, dst, queue,
                   reply_arrived, dma_idr, dma, pinned, op, cbvars, rmvars, hvars>>

\* lines 484-486: wait_for_completion_interruptible(&omxserv->comp)
open_wait(t) ==
    /\ pc[t] = "open_wait"
    /\ \/ /\ comp
          /\ Goto(t, "open_relock")
          /\ UNCHANGED <<inst, omx, ret>>
       \/ \* a signal arrives while the completion is not done
          /\ ~comp
          /\ open_err(t, Err("ERESTARTSYS"))
    /\ UNCHANGED <<svars, state, dst, queue, reply_arrived, ept, dma_idr, dma, pinned, op, loc,
                   cbvars, rmvars, hvars>>

\* lines 487, 482, 490-500: lock again and test the loop condition
open_relock(t) ==
    /\ pc[t] = "open_relock"
    /\ servLock = NoLock
    /\ IF ~rpdev
         THEN Goto(t, "open_wait") /\ UNCHANGED <<inst, omx, ret, ept, list>>
         ELSE open_create_ept(t)
    /\ UNCHANGED <<registered, rpdev, comp, servLock, state, dst, queue,
                   reply_arrived, dma_idr, dma, pinned, op, loc, cbvars, rmvars, hvars>>

\* lines 502-513: idr_init, init_completion, publish in filp->private_data
open_init(t) ==
    /\ pc[t] = "open_init"
    /\ dma_idr' = [dma_idr EXCEPT ![omx[t]] = NoIdr]
    /\ reply_arrived' = [reply_arrived EXCEPT ![omx[t]] = 0]
    /\ inst' = [inst EXCEPT ![omx[t]] = "open"]
    /\ Return(t, Ok(0))
    /\ UNCHANGED <<svars, state, dst, queue, ept, dma, pinned, op, omx, loc,
                   cbvars, rmvars, hvars>>


(***************************************************************************)
(* struct completion                                                       *)
(***************************************************************************)
\* complete(): one more waiter may pass
complete(x) == IF x = DONE_ALL THEN DONE_ALL ELSE x + 1
\* a waiter passes: it takes one completion, complete_all() leaves plenty
consume(x) == IF x = DONE_ALL THEN DONE_ALL ELSE x - 1

(***************************************************************************)
(* rpmsg_omx_connect                                                       *)
(***************************************************************************)
\* a connect that has sent its request and not yet resolved its result
ConnPending(t, c) ==
    op[t] = "connect" /\ omx[t] = c /\ pc[t] \in {"cn_wait", "cn_fin"}

\* history: rpmsg_omx_cb takes a step of handling a connect response for an
\* instance of cs, or rpmsg_omx_remove takes a step of handling a crash.  A
\* connect that has sent its request notes it: early while it waits, late up to
\* the moment it reads omx->state again.
NoteArrival(cs) ==
    [t \in Threads |->
        IF \E c \in cs : ConnPending(t, c)
          THEN [loc[t] EXCEPT !.early = @ \/ pc[t] = "cn_wait", !.late = TRUE]
          ELSE loc[t]]

\* history: remove marks c OMX_FAIL under a pending connect, or under a read
\* that sleeps on an empty queue
NoteFail(c) ==
    [t \in Threads |->
        IF omx[t] = c /\ pc[t] \in {"cn_wait", "cn_fin"}
          THEN [loc[t] EXCEPT !.hit = TRUE, !.late = TRUE,
                              !.early = @ \/ pc[t] = "cn_wait"]
          ELSE IF omx[t] = c /\ pc[t] = "rd_wait" /\ queue[c] = <<>>
            THEN [loc[t] EXCEPT !.hit = TRUE]
            ELSE loc[t]]

\* a faulty variant of connect_already: the test of line 363 left out
connect_already_nocheck(st) == FALSE

\* line 363
connect_already(st) == st = OMX_CONNECTED

\* a faulty variant of connect_result: the wait's timeout decides before the state
connect_result_timeout_first(st, wret) ==
    IF wret = Ok(0) THEN Err("ETIMEDOUT")
    ELSE IF st = OMX_FAIL THEN Err("ENXIO") ELSE wret

\* a faulty variant of connect_result: a wait that timed out is not turned into
\* -ETIMEDOUT
connect_result_keeps_ret(st, wret) ==
    IF st = OMX_FAIL THEN Err("ENXIO") ELSE wret

\* lines 395-402: the result, from omx->state and the wait's return value
connect_result(st, wret) ==
    IF st = OMX_FAIL THEN Err("ENXIO")
    ELSE IF st = OMX_UNCONNECTED
      THEN IF wret # Ok(0) THEN wret ELSE Err("ETIMEDOUT")
      ELSE wret

\* line 355: the call
rpmsg_omx_connect(t, c) ==
    /\ Call(t, "connect", c, Loc0)
    /\ Goto(t, "cn_chk")
    /\ UNCHANGED <<svars, ivars, ret, cbvars, rmvars, enq, ndeq, nokrd, eptfree,
                   nrx, ncrash>>

\* lines 363-366: the test for an established connection, without the lock
cn_chk(t) ==
    /\ pc[t] = "cn_chk"
    /\ IF connect_already(state[omx[t]])
         THEN Return(t, Err("EISCONN"))
         ELSE Goto(t, "cn_send") /\ UNCHANGED ret
    /\ UNCHANGED <<svars, ivars, op, omx, loc, cbvars, rmvars, hvars>>

\* lines 377-388, under omx->lock: send the request unless the state is OMX_FAIL
cn_send(t) ==
    /\ pc[t] = "cn_send"
    /\ IF state[omx[t]] = OMX_FAIL
         THEN Return(t, Err("ENXIO")) /\ UNCHANGED loc
         ELSE \/ \* rpmsg_send_offchannel returns 0
                 /\ loc' = [loc EXCEPT ![t].sent = TRUE,
                                        ![t].unc = state[omx[t]] = OMX_UNCONNECTED]
                 /\ Goto(t, "cn_wait")
                 /\ UNCHANGED ret
              \/ \* rpmsg_send_offchannel fails: no tx buffer
                 /\ Return(t, Err("ENOMEM"))
                 /\ UNCHANGED loc
    /\ UNCHANGED <<svars, ivars, op, omx, cbvars, rmvars, hvars>>

\* lines 391-392: wait_for_completion_interruptible_timeout, 5 seconds
cn_wait(t) ==
    /\ pc[t] = "cn_wait"
    /\ \/ \* completed: the time left, which is positive
          /\ reply_arrived[omx[t]] # 0
          /\ reply_arrived' = [reply_arrived EXCEPT ![omx[t]] = consume(@)]
          /\ loc' = [loc EXCEPT ![t].wret = Ok(1)]
       \/ \* the 5 seconds elapse
          /\ reply_arrived[omx[t]] = 0
          /\ loc' = [loc EXCEPT ![t].wret = Ok(0)]
          /\ UNCHANGED reply_arrived
       \/ \* a signal arrives
          /\ reply_arrived[omx[t]] = 0
          /\ loc' = [loc EXCEPT ![t].wret = Err("ERESTARTSYS")]
          /\ UNCHANGED reply_arrived
    /\ Goto(t, "cn_fin")
    /\ UNCHANGED <<svars, inst, state, dst, queue, ept, dma_idr, dma, pinned, op, omx, ret,
                   cbvars, rmvars, hvars>>

\* lines 394-405, under omx->lock: resolve the result
cn_fin(t) ==
    /\ pc[t] = "cn_fin"
    /\ Return(t, connect_result(state[omx[t]], loc[t].wret))
    /\ loc' = [loc EXCEPT ![t] = [Loc0 EXCEPT !.sent = TRUE]]
    /\ UNCHANGED <<svars, ivars, op, omx, cbvars, rmvars, hvars>>

(***************************************************************************)
(* rpmsg_omx_cb                                                            *)
(***************************************************************************)
\* hdr->len of a raw frame, in bytes
RawLens == {2}
\* what lies behind the end of a received buffer
Junk == {0, 255}

\* the frames the remote processor may send to an endpoint: malformed ones
BadFrames ==
    \* shorter than a header
    {[type |-> OMX_RAW_MSG, len |-> HdrSize - 1, hlen |-> 0, status |-> 0,
      addr |-> 0, junk |-> 0]}
    \cup
    \* more bytes delivered than hdr->len declares
    {[type |-> ty, len |-> HdrSize + RspSize + 1, hlen |-> RspSize, status |-> 0,
      addr |-> 7, junk |-> 0] : ty \in {OMX_RAW_MSG, OMX_CONN_RSP}}
    \cup
    \* a connect response whose hdr->len is too small for status and addr
    {[type |-> OMX_CONN_RSP, len |-> HdrSize + 1, hlen |-> 1, status |-> 0,
      addr |-> 7, junk |-> 0]}
    \cup
    \* a frame of a type the driver does not know
    {[type |-> OMX_OTHER, len |-> HdrSize, hlen |-> 0, status |-> 0, addr |-> 0,
      junk |-> 0]}

\* connect responses
RspFrames ==
    {[type |-> OMX_CONN_RSP, len |-> HdrSize + RspSize, hlen |-> RspSize,
      status |-> s, addr |-> a, junk |-> 0] : s \in {0, 1}, a \in Addrs}

\* the connect response of a remote side that accepts at one address
RspAccept == {f \in RspFrames : f.status = 0 /\ f.addr = 7}

\* connect responses that declare status and addr and deliver no payload: both
\* are read from behind the buffer
RspShort ==
    {[type |-> OMX_CONN_RSP, len |-> HdrSize, hlen |-> RspSize,
      status |-> s, addr |-> a, junk |-> 0] : s \in {0, 1}, a \in Addrs}

\* raw frames
RawFrames ==
    {[type |-> OMX_RAW_MSG, len |-> HdrSize + n, hlen |-> n, status |-> 0,
      addr |-> 0, junk |-> 0] : n \in RawLens}

\* raw frames that deliver one byte less than hdr->len declares
RawShort ==
    {[type |-> OMX_RAW_MSG, len |-> HdrSize + 1, hlen |-> 2, status |-> 0,
      addr |-> 0, junk |-> j] : j \in Junk}

RxFrames == BadFrames \cup RspFrames \cup RspShort \cup RawFrames \cup RawShort

\* line 304
cb_truncated(len, hlen) == len < HdrSize \/ hlen < len - HdrSize

\* lines 340-341: the hdr->len bytes copied from hdr->data; the n-th frame queued
\* on an instance carries n in every byte it delivers
cb_payload(f, n) ==
    [i \in 1..f.hlen |-> IF i <= f.len - HdrSize THEN n ELSE f.junk]

\* a faulty variant of cb_dst: the address of an error response is dropped
cb_dst_on_success(old, status, addr) == IF status = 0 THEN addr ELSE old

\* line 324
cb_dst(old, status, addr) == addr

\* a faulty variant of cb_state: an OK response overwrites OMX_FAIL
cb_state_overwrite(st, status) == IF status # 0 THEN OMX_FAIL ELSE OMX_CONNECTED

\* lines 326-329
cb_state(st, status) ==
    IF status # 0 THEN OMX_FAIL
    ELSE IF st # OMX_FAIL THEN OMX_CONNECTED ELSE st

\* a faulty variant of skb_queue_tail: the frame goes to the head of the queue
skb_queue_head(q, skb) == <<skb>> \o q

\* line 344
skb_queue_tail(q, skb) == Append(q, skb)

\* lines 295-324 and 334-352: validate the frame and switch on its type; a raw
\* frame is queued, a connect response has its address recorded
rpmsg_omx_cb(c, f) ==
    /\ cbpc = "idle"
    /\ ept[c] = "live"
    /\ IF cb_truncated(f.len, f.hlen)
         THEN UNCHANGED <<dst, queue, enq, cbvars, loc, nrx>>
         ELSE IF f.type = OMX_CONN_RSP
           THEN IF f.hlen < RspSize
                  THEN UNCHANGED <<dst, queue, enq, cbvars, loc, nrx>>
                  ELSE /\ nrx < MaxRsp
                       /\ nrx' = nrx + 1
                       /\ dst' = [dst EXCEPT ![c] = cb_dst(@, f.status, f.addr)]
                       /\ cbpc' = "cb_state"
                       /\ cbomx' = c
                       /\ cbmsg' = f
                       /\ loc' = NoteArrival({c})
                       /\ UNCHANGED <<queue, enq>>
           ELSE IF f.type = OMX_RAW_MSG
             THEN \/ /\ Len(enq[c]) < MaxRaw
                     /\ queue' = [queue EXCEPT
                          ![c] = skb_queue_tail(@, cb_payload(f, Len(enq[c]) + 1))]
                     /\ enq' = [enq EXCEPT
                          ![c] = Append(@, cb_payload(f, Len(enq[c]) + 1))]
                     /\ UNCHANGED <<dst, cbvars, loc, nrx>>
                  \/ \* alloc_skb fails
                     UNCHANGED <<dst, queue, enq, cbvars, loc, nrx>>
             ELSE UNCHANGED <<dst, queue, enq, cbvars, loc, nrx>>
    /\ UNCHANGED <<svars, inst, state, reply_arrived, ept, dma_idr, dma, pinned, pc, op, omx,
                   ret, rmvars, ndeq, nokrd, eptfree, nops, ndma, ncrash>>

\* lines 325-330, under omx->lock.  (What a callback still running does to an
\* instance that rpmsg_omx_release has freed is not modelled: it leaves no trace.)
cb_lock(c) ==
    /\ cbpc = "cb_state"
    /\ cbomx = c
    /\ IF inst[c] = "closed"
         THEN UNCHANGED state
         ELSE state' = [state EXCEPT ![c] = cb_state(@, cbmsg.status)]
    /\ cbpc' = "cb_complete"
    /\ loc' = NoteArrival({c})
    /\ UNCHANGED <<svars, inst, dst, queue, reply_arrived, ept, dma_idr, dma, pinned, pc, op,
                   omx, ret, cbomx, cbmsg, rmvars, hvars>>

\* line 332
cb_complete(c) ==
    /\ cbpc = "cb_complete"
    /\ cbomx = c
    /\ IF inst[c] = "closed"
         THEN UNCHANGED reply_arrived
         ELSE reply_arrived' = [reply_arrived EXCEPT ![c] = complete(@)]
    /\ cbpc' = "idle"
    /\ cbomx' = NoOmx
    /\ cbmsg' = NoMsg
    /\ loc' = NoteArrival({c})
    /\ UNCHANGED <<svars, inst, state, dst, queue, ept, dma_idr, dma, pinned, pc, op, omx, ret,
                   rmvars, hvars>>

(***************************************************************************)
(* rpmsg_omx_probe and rpmsg_omx_remove                                    *)
(***************************************************************************)
\* the set of members of omxserv->list
Live == {list[i] : i \in 1..Len(list)}

\* a faulty variant of complete_all: the completion stays as it is
complete_all_not(done) == done

\* line 781: complete_all(&omxserv->comp)
complete_all(done) == TRUE

\* lines 718-785: a channel appears; the service of that name is reused (728-732)
\* or made anew, and open()s waiting for it are released
rpmsg_omx_probe ==
    /\ ~rpdev
    /\ rmpc = "idle"
    /\ registered' = TRUE
    /\ rpdev' = TRUE
    /\ comp' = complete_all(comp)
    /\ UNCHANGED <<servLock, list, ivars, tvars, cbvars, rmvars, hvars>>

\* lines 807-815: the channel goes away and the remote processor has not crashed
remove_clean ==
    /\ rmpc = "idle"
    /\ registered /\ rpdev
    /\ servLock = NoLock
    /\ list = <<>>
    /\ \A t \in Threads : Idle(t)
    /\ cbpc = "idle"
    /\ registered' = FALSE
    /\ rpdev' = FALSE
    /\ UNCHANGED <<comp, servLock, list, ivars, tvars, cbvars, rmvars, hvars>>

\* a faulty variant of list_for_each_entry: the first entry only
list_for_each_entry_first(l) == IF l = <<>> THEN l ELSE <<Head(l)>>

\* line 820: the entries the loop visits, in order
list_for_each_entry(l) == l

\* lines 817-819: the remote processor crashed; re-arm omxserv->comp and take
\* omxserv->lock
rpmsg_omx_remove ==
    /\ rmpc = "idle"
    /\ registered /\ rpdev
    /\ ncrash < MaxCrashes
    /\ servLock = NoLock
    /\ ncrash' = ncrash + 1
    /\ comp' = FALSE
    /\ servLock' = RmCtx
    /\ rmleft' = list_for_each_entry(list)
    /\ rmpc' = "rm_loop"
    /\ loc' = NoteArrival(Live)
    /\ UNCHANGED <<registered, rpdev, list, ivars, pc, op, omx, ret, cbvars, rmcur,
                   enq, ndeq, nokrd, eptfree, nops, ndma, nrx>>

\* lines 820-824: the next instance of the list is set to OMX_FAIL under omx->lock
remove_fail ==
    /\ rmpc = "rm_loop"
    /\ rmleft # <<>>
    /\ state' = [state EXCEPT ![Head(rmleft)] = OMX_FAIL]
    /\ rmcur' = Head(rmleft)
    /\ rmleft' = Tail(rmleft)
    /\ rmpc' = "rm_wake"
    /\ loc' = NoteFail(Head(rmleft))
    /\ UNCHANGED <<svars, inst, dst, queue, reply_arrived, ept, dma_idr, dma, pinned, pc, op,
                   omx, ret, cbvars, hvars>>

\* lines 825-828: release its waiters and destroy its endpoint
remove_wake ==
    /\ rmpc = "rm_wake"
    /\ reply_arrived' = [reply_arrived EXCEPT ![rmcur] = DONE_ALL]
    /\ ept' = [ept EXCEPT ![rmcur] = "dead"]
    /\ eptfree' = [eptfree EXCEPT ![rmcur] = @ + 1]
    /\ rmcur' = NoOmx
    /\ rmpc' = "rm_loop"
    /\ loc' = NoteArrival({rmcur})
    /\ UNCHANGED <<svars, inst, state, dst, queue, dma_idr, dma, pinned, pc, op, omx, ret,
                   cbvars, rmleft, enq, ndeq, nokrd, nops, ndma, nrx, ncrash>>

\* lines 830-831: the end of the list
remove_end ==
    /\ rmpc = "rm_loop"
    /\ rmleft = <<>>
    /\ rpdev' = FALSE
    /\ servLock' = NoLock
    /\ rmpc' = "idle"
    /\ UNCHANGED <<registered, comp, list, ivars, tvars, cbvars, rmleft, rmcur,
                   hvars>>


(***************************************************************************)
(* rpmsg_omx_read                                                          *)
(***************************************************************************)
\* a faulty variant of read_fails: the test of line 609 left out
read_fails_never(st) == FALSE

\* line 609
read_fails(st) == st = OMX_FAIL

\* line 614: the queue after skb_dequeue
skb_dequeue_rest(q) == IF q = <<>> THEN q ELSE Tail(q)

\* lines 602-604: the condition of wait_event_interruptible
read_wakeup(q, st) == q # <<>> \/ st = OMX_FAIL

\* lines 609-629, under omx->lock up to the dequeue: fail on OMX_FAIL, else take
\* the oldest frame and copy at most len bytes of it to the caller
read_take(t) ==
    LET c == omx[t]
        q == queue[c]
    IN IF read_fails(state[c])
         THEN /\ Return(t, Err("ENXIO"))
              /\ UNCHANGED <<loc, queue, ndeq, nokrd>>
         ELSE IF q = <<>>
           THEN \* skb_dequeue returned NULL
                /\ Return(t, Err("EIO"))
                /\ loc' = [loc EXCEPT ![t] = Loc0]
                /\ UNCHANGED <<queue, ndeq, nokrd>>
           ELSE /\ queue' = [queue EXCEPT ![c] = skb_dequeue_rest(q)]
                /\ ndeq' = [ndeq EXCEPT ![c] = @ + 1]
                /\ \/ \E n \in ReadLens :
                        /\ Return(t, Ok(Min(n, Len(Head(q)))))
                        /\ nokrd' = [nokrd EXCEPT ![c] = @ + 1]
                        /\ loc' = [loc EXCEPT ![t] =
                                     [Loc0 EXCEPT !.data = Prefix(Head(q), n)]]
                   \/ \* copy_to_user fails; the frame is freed all the same
                      /\ Return(t, Err("EFAULT"))
                      /\ loc' = [loc EXCEPT ![t] = Loc0]
                      /\ UNCHANGED nokrd

\* lines 583-592: the call, and the test for a connection never made
rpmsg_omx_read(t, c) ==
    /\ Call(t, "read", c, [Loc0 EXCEPT !.failed = state[c] = OMX_FAIL])
    /\ IF state[c] = OMX_UNCONNECTED
         THEN Return(t, Err("ENOTCONN"))
         ELSE Goto(t, "rd_queue") /\ UNCHANGED ret
    /\ UNCHANGED <<svars, ivars, cbvars, rmvars, enq, ndeq, nokrd, eptfree, nrx,
                   ncrash>>

\* lines 594-601 (and 609-629 when there is a frame)
rd_queue(t) ==
    /\ pc[t] = "rd_queue"
    /\ IF queue[omx[t]] = <<>>
         THEN /\ \/ \* O_NONBLOCK
                    Return(t, Err("EAGAIN"))
                 \/ Goto(t, "rd_wait") /\ UNCHANGED ret
              /\ UNCHANGED <<queue, ndeq, nokrd, loc>>
         ELSE read_take(t)
    /\ UNCHANGED <<svars, inst, state, dst, reply_arrived, ept, dma_idr, dma, pinned, op, omx,
                   cbvars, rmvars, enq, eptfree, nops, ndma, nrx, ncrash>>

\* lines 602-605: wait_event_interruptible(omx->readq, ...)
rd_wait(t) ==
    /\ pc[t] = "rd_wait"
    /\ IF read_wakeup(queue[omx[t]], state[omx[t]])
         THEN Goto(t, "rd_take") /\ UNCHANGED ret
         ELSE \* a signal arrives while the condition is false
              Return(t, Err("ERESTARTSYS"))
    /\ UNCHANGED <<svars, ivars, op, omx, loc, cbvars, rmvars, hvars>>

\* lines 606-629: after the wait
rd_take(t) ==
    /\ pc[t] = "rd_take"
    /\ read_take(t)
    /\ UNCHANGED <<svars, inst, state, dst, reply_arrived, ept, dma_idr, dma, pinned, op, omx,
                   cbvars, rmvars, enq, eptfree, nops, ndma, nrx, ncrash>>

(***************************************************************************)
(* rpmsg_omx_poll                                                          *)
(***************************************************************************)
\* lines 688-693
poll_events(q) ==
    (IF q # <<>> THEN {POLLIN, POLLRDNORM} ELSE {}) \cup {POLLOUT, POLLWRNORM}

\* a faulty variant of poll_state: POLLERR is or-ed into the mask
poll_state_adds_err(mask, st) == IF st = OMX_FAIL THEN mask \cup {POLLERR} ELSE mask

\* lines 695-696
poll_state(mask, st) == IF st = OMX_FAIL THEN {POLLERR} ELSE mask

\* lines 680-693: the events the queue gives
rpmsg_omx_poll(t, c) ==
    /\ Call(t, "poll", c, [Loc0 EXCEPT !.mask = poll_events(queue[c])])
    /\ Goto(t, "poll_state")
    /\ UNCHANGED <<svars, ivars, ret, cbvars, rmvars, enq, ndeq, nokrd, eptfree,
                   nrx, ncrash>>

\* lines 695-698: the state overrides them
poll_ret(t) ==
    /\ pc[t] = "poll_state"
    /\ loc' = [loc EXCEPT ![t].mask = poll_state(@, state[omx[t]])]
    /\ Return(t, Ok(0))
    /\ UNCHANGED <<svars, ivars, op, omx, cbvars, rmvars, hvars>>


(***************************************************************************)
(* the buffer registry: rpmsg_omx_pin_buffer, rpmsg_omx_unpin_buffer       *)
(***************************************************************************)
\* what a pinned descriptor holds: its memory (kmalloc), the reference on the
\* dma-buf (dma_buf_get), the attachment and the mapping
DmaRes == {"mem", "dbuf", "attach", "sgt"}

\* the calls of rpmsg_omx_pin_buffer that may fail before the idr is touched
PinStages ==
    {"dma_buf_get", "dma_buf_attach", "dma_buf_map_attachment", "idr_pre_get"}

\* lines 128-157: what the descriptor holds when the call fails
pin_acquired(stage) ==
    CASE stage = "dma_buf_get" -> {"mem"}
      [] stage = "dma_buf_attach" -> {"mem", "dbuf"}
      [] stage = "dma_buf_map_attachment" -> {"mem", "dbuf", "attach"}
      [] stage = "idr_pre_get" -> DmaRes

\* lines 176-186: what is given back from the label the failure jumps to (err,
\* err_buf_put, err_detach, err_unmap)
pin_unwind(stage) ==
    CASE stage = "dma_buf_get" -> {"mem"}
      [] stage = "dma_buf_attach" -> {"dbuf", "mem"}
      [] stage = "dma_buf_map_attachment" -> {"attach", "dbuf", "mem"}
      [] stage = "idr_pre_get" -> DmaRes

\* lines 137-157: the error of the failing call
pin_errno(stage) ==
    IF stage = "dma_buf_get" THEN Err("EBADF") ELSE Err("ENOMEM")

\* a descriptor: the dma-buf it was made for (an fd names the same dma-buf all
\* along), what it holds, and how often something it did not hold was given back
NewDma(fd, held) == [buf |-> fd, held |-> held, over |-> 0]

\* giving back the resources res of a descriptor
dma_put(d, res) ==
    [d EXCEPT !.held = @ \ res,
              !.over = IF res \subseteq d.held THEN @ ELSE @ + 1]

\* lines 207-220: unmap, detach, put, kfree
rpmsg_omx_remove_dma_buffer(heap, p) ==
    [heap EXCEPT ![p] = dma_put(@, DmaRes)]

\* a faulty variant of idr_get_new_above: the id asked for, in use or not
idr_get_new_same(idr, fd) == fd

\* idr_get_new_above: the lowest id not in use that is at least fd
idr_get_new_above(idr, fd) ==
    CHOOSE id \in fd..(fd + Cardinality(idr)) :
        /\ id \notin idr
        /\ \A j \in fd..(id - 1) : j \in idr

\* the idr with id bound to the descriptor p
idr_put(idr, id, p) ==
    [k \in DOMAIN idr \cup {id} |-> IF k = id THEN p ELSE idr[k]]

\* a faulty variant of idr_remove: the id stays in use
idr_remove_not(idr, id) == idr

\* idr_remove
idr_remove(idr, id) == [k \in DOMAIN idr \ {id} |-> idr[k]]

\* a client may call a buffer ioctl of an open file
CanCallDma(t, c) == Idle(t) /\ ndma < MaxDmaOps /\ inst[c] = "open"

\* lines 125-157: take the dma-buf, attach it, map it; any of them may fail, and
\* what was done is undone (lines 176-186)
rpmsg_omx_pin_buffer(t, c, fd) ==
    /\ CanCallDma(t, c)
    /\ ndma' = ndma + 1
    /\ op' = [op EXCEPT ![t] = "pin"]
    /\ omx' = [omx EXCEPT ![t] = c]
    /\ loc' = [loc EXCEPT ![t] = [Loc0 EXCEPT !.fd = fd]]
    /\ \/ \* kmalloc fails
          /\ Return(t, Err("ENOMEM"))
          /\ UNCHANGED dma
       \/ \E stage \in PinStages :
            LET d == dma_put(NewDma(fd, pin_acquired(stage)), pin_unwind(stage))
            IN /\ Return(t, pin_errno(stage))
               /\ dma' = IF d.held = {} /\ d.over = 0 THEN dma
                         ELSE Append(dma, d)
       \/ /\ Goto(t, "pin_idr")
          /\ UNCHANGED <<ret, dma>>
    /\ UNCHANGED <<svars, inst, state, dst, queue, reply_arrived, ept, dma_idr,
                   pinned, cbvars, rmvars, enq, ndeq, nokrd, eptfree, nops, nrx,
                   ncrash>>

\* lines 159-170: a new id under omx->lock, bound to the descriptor; it must be
\* the fd
pin_idr(t) ==
    /\ pc[t] = "pin_idr"
    /\ \/ \* idr_get_new_above fails
          LET d == dma_put(NewDma(loc[t].fd, DmaRes), pin_unwind("idr_pre_get"))
          IN /\ dma' = IF d.held = {} /\ d.over = 0 THEN dma ELSE Append(dma, d)
             /\ Return(t, Err("EAGAIN"))
             /\ UNCHANGED <<dma_idr, pinned, loc>>
       \/ LET id == idr_get_new_above(DOMAIN dma_idr[omx[t]], loc[t].fd)
              p == Len(dma) + 1
          IN /\ dma' = Append(dma, NewDma(loc[t].fd, DmaRes))
             /\ dma_idr' = [dma_idr EXCEPT ![omx[t]] = idr_put(@, id, p)]
             /\ IF loc[t].fd = id
                  THEN /\ Return(t, Ok(0))
                       /\ pinned' = [pinned EXCEPT ![omx[t]] = @ \cup {id}]
                       /\ loc' = [loc EXCEPT ![t].dma = p]
                  ELSE /\ Goto(t, "pin_rem")
                       /\ loc' = [loc EXCEPT ![t].id = id, ![t].dma = p]
                       /\ UNCHANGED <<ret, pinned>>
    /\ UNCHANGED <<svars, inst, state, dst, queue, reply_arrived, ept, op, omx,
                   cbvars, rmvars, hvars>>

\* lines 172-186: the id is given back under omx->lock and the buffer released
pin_rem(t) ==
    /\ pc[t] = "pin_rem"
    /\ dma_idr' = [dma_idr EXCEPT ![omx[t]] = idr_remove(@, loc[t].id)]
    /\ dma' = [dma EXCEPT ![loc[t].dma] = dma_put(@, pin_unwind("idr_pre_get"))]
    /\ Return(t, Err("EINVAL"))
    /\ UNCHANGED <<svars, inst, state, dst, queue, reply_arrived, ept, pinned,
                   op, omx, loc, cbvars, rmvars, hvars>>

\* lines 189-205: idr_find under omx->lock; the descriptor, or 0 for NULL
rpmsg_omx_dma_find(idr, fd) == IF fd \in DOMAIN idr THEN idr[fd] ELSE 0

\* line 202: sg_dma_address of the first entry of the mapping of a dma-buf
sg_dma_address(buf) == 16 * buf

\* the physical addresses remoteproc has a device mapping for
Carveout == 48..63

\* line 111: rproc_pa_to_da, the device address of a physical address
rproc_pa_to_da(pa) == IF pa \in Carveout THEN Ok(pa + 4096) ELSE Err("EINVAL")

\* lines 222-229: look the buffer up
rpmsg_omx_unpin_buffer(t, c, fd) ==
    /\ CanCallDma(t, c)
    /\ ndma' = ndma + 1
    /\ op' = [op EXCEPT ![t] = "unpin"]
    /\ omx' = [omx EXCEPT ![t] = c]
    /\ LET p == rpmsg_omx_dma_find(dma_idr[c], fd)
       IN /\ loc' = [loc EXCEPT ![t] = [Loc0 EXCEPT !.fd = fd, !.dma = p]]
          /\ IF p # 0
               THEN Goto(t, "unpin_rem") /\ UNCHANGED ret
               ELSE Return(t, Err("EINVAL"))
    /\ UNCHANGED <<svars, ivars, cbvars, rmvars, enq, ndeq, nokrd, eptfree, nops,
                   nrx, ncrash>>

\* lines 231-233: idr_remove, without the lock, and release of the buffer
unpin_rem(t) ==
    /\ pc[t] = "unpin_rem"
    /\ dma_idr' = [dma_idr EXCEPT ![omx[t]] = idr_remove(@, loc[t].fd)]
    /\ dma' = rpmsg_omx_remove_dma_buffer(dma, loc[t].dma)
    /\ pinned' = [pinned EXCEPT ![omx[t]] = @ \ {loc[t].fd}]
    /\ Return(t, Ok(0))
    /\ UNCHANGED <<svars, inst, state, dst, queue, reply_arrived, ept, op, omx,
                   loc, cbvars, rmvars, hvars>>

(***************************************************************************)
(* rpmsg_omx_write                                                         *)
(***************************************************************************)
\* write(2) sizes: a small message and one above the cap
WriteLens == {8, 600}
\* the buffer counts a payload may declare (an enum rpc_omx_map_info_type)
MapTypes == {-1, 0, 1, 2, 4}

\* line 648
write_use(len) == Min(KbufSize - HdrSize, len)

\* lines 280-281
map_buf_bad_type(maptype) ==
    maptype < RPC_OMX_MAP_INFO_NONE \/ maptype > RPC_OMX_MAP_INFO_THREE_BUF

\* a faulty variant of write_send: the frame is sent before the state is tested
write_send_then_check(st, sendok, use) ==
    IF ~sendok THEN [ret |-> Err("ENOMEM"), tried |-> TRUE, sent |-> FALSE]
    ELSE IF st = OMX_FAIL THEN [ret |-> Err("ENXIO"), tried |-> TRUE, sent |-> TRUE]
    ELSE [ret |-> Ok(use), tried |-> TRUE, sent |-> TRUE]

\* lines 665-677, under omx->lock: what write returns, whether a frame was given
\* to rpmsg_send_offchannel (tried) and whether it was taken (sent)
write_send(st, sendok, use) ==
    IF st = OMX_FAIL THEN [ret |-> Err("ENXIO"), tried |-> FALSE, sent |-> FALSE]
    ELSE IF sendok THEN [ret |-> Ok(use), tried |-> TRUE, sent |-> TRUE]
    ELSE [ret |-> Err("ENOMEM"), tried |-> TRUE, sent |-> FALSE]

\* lines 632-659 and 268-282: the call; the connection test, copy_from_user and
\* the test of the buffer count
rpmsg_omx_write(t, c) ==
    /\ CanCall(t, c)
    /\ nops' = nops + 1
    /\ UNCHANGED ndma
    /\ op' = [op EXCEPT ![t] = "write"]
    /\ omx' = [omx EXCEPT ![t] = c]
    /\ IF state[c] = OMX_UNCONNECTED
         THEN Return(t, Err("ENOTCONN")) /\ loc' = [loc EXCEPT ![t] = Loc0]
         ELSE \/ \* copy_from_user fails
                 Return(t, Err("EFAULT")) /\ loc' = [loc EXCEPT ![t] = Loc0]
              \/ \E mt \in MapTypes :
                   IF map_buf_bad_type(mt)
                     THEN /\ Return(t, Err("EINVAL"))
                          /\ loc' = [loc EXCEPT ![t] = Loc0]
                     ELSE /\ Goto(t, IF mt = 0 THEN "wr_send" ELSE "wr_find")
                          /\ loc' = [loc EXCEPT ![t] = [Loc0 EXCEPT !.maptype = mt]]
                          /\ UNCHANGED ret
    /\ UNCHANGED <<svars, ivars, cbvars, rmvars, enq, ndeq, nokrd, eptfree, nrx,
                   ncrash>>

\* lines 243-258 and 189-205: _rpmsg_omx_buffer_get looks the next handle of the
\* message, fd, up
wr_find(t, fd) ==
    /\ pc[t] = "wr_find"
    /\ LET p == rpmsg_omx_dma_find(dma_idr[omx[t]], fd)
       IN IF p # 0
            THEN /\ loc' = [loc EXCEPT ![t].fd = fd, ![t].dma = p,
                                       ![t].pa = sg_dma_address(dma[p].buf)]
                 /\ Goto(t, "wr_da")
                 /\ UNCHANGED ret
            ELSE /\ loc' = [loc EXCEPT ![t].fd = fd, ![t].dma = 0]
                 /\ Return(t, Err("EIO"))
    /\ UNCHANGED <<svars, ivars, op, omx, cbvars, rmvars, hvars>>

\* lines 96-119: the state is tested under omx->lock, then remoteproc is asked
\* for the device address
_rpmsg_pa_to_da(st, pa) ==
    IF st = OMX_FAIL THEN Err("ENXIO") ELSE rproc_pa_to_da(pa)

\* lines 259-260 and 284-290: the device address replaces the handle in the
\* message; then the loop goes on
wr_da(t) ==
    /\ pc[t] = "wr_da"
    /\ LET r == _rpmsg_pa_to_da(state[omx[t]], loc[t].pa)
       IN IF IsErr(r)
            THEN Return(t, r) /\ UNCHANGED loc
            ELSE /\ loc' = [loc EXCEPT ![t].maptype = @ - 1, ![t].da = r.val]
                 /\ Goto(t, IF loc[t].maptype = 1 THEN "wr_send" ELSE "wr_find")
                 /\ UNCHANGED ret
    /\ UNCHANGED <<svars, ivars, op, omx, cbvars, rmvars, hvars>>

\* lines 661-677
wr_send(t) ==
    /\ pc[t] = "wr_send"
    /\ \E sendok \in BOOLEAN, n \in WriteLens :
         LET r == write_send(state[omx[t]], sendok, write_use(n))
         IN /\ Return(t, r.ret)
            /\ loc' = [loc EXCEPT ![t] = [Loc0 EXCEPT !.sent = r.sent,
                                                      !.tried = r.tried]]
    /\ UNCHANGED <<svars, ivars, op, omx, cbvars, rmvars, hvars>>

(***************************************************************************)
(* rpmsg_omx_release                                                       *)
(***************************************************************************)
\* the last reference to the file is dropped: no call on it is running
NoCallOn(c) == \A u \in Threads : omx[u] = c => Idle(u)

\* lines 526-540: the call, and the test for an established connection
rpmsg_omx_release(t, c) ==
    /\ NoCallOn(c)
    /\ Call(t, "release", c, Loc0)
    /\ inst' = [inst EXCEPT ![c] = "closing"]
    /\ Goto(t, IF state[c] = OMX_CONNECTED THEN "rel_send" ELSE "rel_list")
    /\ UNCHANGED <<svars, state, dst, queue, reply_arrived, ept, dma_idr, dma, pinned, ret,
                   cbvars, rmvars, enq, ndeq, nokrd, eptfree, nrx, ncrash>>

\* lines 541-561: the disconnect message, under omx->lock, unless OMX_FAIL; the
\* result of the send is only logged
rel_send(t) ==
    /\ pc[t] = "rel_send"
    /\ \E sendok \in BOOLEAN :
         loc' = [loc EXCEPT ![t].sent = sendok /\ state[omx[t]] # OMX_FAIL]
    /\ Goto(t, "rel_list")
    /\ UNCHANGED <<svars, ivars, op, omx, ret, cbvars, rmvars, hvars>>

\* lines 519-524 and 565: idr_for_each releases every descriptor the idr holds
rpmsg_omx_idr_unpin_buffer(heap, idr) ==
    [p \in DOMAIN heap |->
        IF \E id \in DOMAIN idr : idr[id] = p
          THEN dma_put(heap[p], DmaRes) ELSE heap[p]]

\* lines 564-580: unpin what is left, leave the list under omxserv->lock, destroy
\* the endpoint if there is an rpdev, free the instance (the fields of a freed
\* instance are shown as kzalloc left them)
rel_list(t) ==
    /\ pc[t] = "rel_list"
    /\ servLock = NoLock
    /\ dma' = rpmsg_omx_idr_unpin_buffer(dma, dma_idr[omx[t]])
    /\ dma_idr' = [dma_idr EXCEPT ![omx[t]] = NoIdr]
    /\ pinned' = [pinned EXCEPT ![omx[t]] = {}]
    /\ state' = [state EXCEPT ![omx[t]] = OMX_UNCONNECTED]
    /\ dst' = [dst EXCEPT ![omx[t]] = 0]
    /\ queue' = [queue EXCEPT ![omx[t]] = <<>>]
    /\ reply_arrived' = [reply_arrived EXCEPT ![omx[t]] = 0]
    /\ list' = SelectSeq(list, LAMBDA d : d # omx[t])
    /\ IF rpdev
         THEN /\ ept' = [ept EXCEPT ![omx[t]] = "dead"]
              /\ eptfree' = [eptfree EXCEPT ![omx[t]] = @ + 1]
         ELSE UNCHANGED <<ept, eptfree>>
    /\ inst' = [inst EXCEPT ![omx[t]] = "closed"]
    /\ Return(t, Ok(0))
    /\ UNCHANGED <<registered, rpdev, comp, servLock, op, omx, loc, cbvars,
                   rmvars, enq, ndeq, nokrd, nops, ndma, nrx, ncrash>>

(***************************************************************************)
(* the locks: omxserv->lock ("S") and omx->lock ("C")                      *)
(***************************************************************************)
\* the reads and writes of omx->state, omx->dst and omx->queue
Accesses == {"rState", "wState", "rDst", "wDst", "rQueue", "wQueue"}

\* a faulty variant of StepTrace: open sleeps with omxserv->lock held
StepTraceSleepsLocked(o, p, q) ==
    IF p = "open_wait" THEN <<"lockS", "wait", "unlockS">> ELSE <<>>

\* What the code does, in order, in the step that takes the operation o from the
\* program point p to q: the locks it takes and gives back, its accesses to
\* omx->state, omx->dst and omx->queue, and its sleeps ("wait": on
\* omxserv->comp, on omx->reply_arrived or on omx->readq).
StepTrace(o, p, q) ==
    CASE \* rpmsg_omx_open: line 469, lines 471-500, 484, 502-513
         o = "open" /\ p = "call" /\ q = "open_lock" -> <<"wState">>
      [] o = "open" /\ p \in {"open_lock", "open_relock"} -> <<"lockS", "unlockS">>
      [] o = "open" /\ p = "open_wait" -> <<"wait">>
         \* rpmsg_omx_connect: line 363, lines 377-388, 391, 394-403
      [] o = "connect" /\ p = "cn_chk" -> <<"rState">>
      [] o = "connect" /\ p = "cn_send" -> <<"lockC", "rState", "unlockC">>
      [] o = "connect" /\ p = "cn_wait" -> <<"wait">>
      [] o = "connect" /\ p = "cn_fin" -> <<"lockC", "rState", "unlockC">>
         \* rpmsg_omx_read: line 591, lines 594-597, 602-604 (the condition of
         \* the wait is evaluated without the lock), 605-615
      [] o = "read" /\ p = "call" -> <<"rState">>
      [] o = "read" /\ p = "rd_queue" /\ q = "rd_wait" ->
            <<"lockC", "rQueue", "unlockC">>
      [] o = "read" /\ p = "rd_queue" /\ q # "rd_wait" ->
            <<"lockC", "rQueue", "rState", "wQueue", "unlockC">>
      [] o = "read" /\ p = "rd_wait" -> <<"wait", "rQueue", "rState">>
      [] o = "read" /\ p = "rd_take" ->
            <<"lockC", "rState", "wQueue", "unlockC">>
         \* rpmsg_omx_write: line 641, lines 198-200, 102-107, 664-670
      [] o = "write" /\ p = "call" -> <<"rState">>
      [] o = "write" /\ p = "wr_find" -> <<"lockC", "unlockC">>
      [] o = "write" /\ p = "wr_da" -> <<"lockC", "rState", "unlockC">>
      [] o = "write" /\ p = "wr_send" -> <<"lockC", "rState", "rDst", "unlockC">>
         \* rpmsg_omx_poll: lines 688, 695
      [] o = "poll" /\ p = "call" -> <<"rQueue">>
      [] o = "poll" /\ p = "poll_state" -> <<"rState">>
         \* rpmsg_omx_release: line 540, lines 544-557, 569-577
      [] o = "release" /\ p = "call" -> <<"rState">>
      [] o = "release" /\ p = "rel_send" ->
            <<"rDst", "lockC", "rState", "unlockC">>
      [] o = "release" /\ p = "rel_list" -> <<"lockS", "unlockS">>
         \* the buffer ioctls: lines 159-161, 172-174, 198-200
      [] o = "pin" /\ p \in {"pin_idr", "pin_rem"} -> <<"lockC", "unlockC">>
      [] o = "unpin" /\ p = "call" -> <<"lockC", "unlockC">>
         \* rpmsg_omx_cb: line 324, lines 325-330, 343-345
      [] o = "cb" /\ p = "call" /\ q = "cb_state" -> <<"wDst">>
      [] o = "cb" /\ p = "call" /\ q # "cb_state" ->
            <<"lockC", "wQueue", "unlockC">>
      [] o = "cb" /\ p = "cb_state" ->
            <<"lockC", "rState", "wState", "unlockC">>
         \* rpmsg_omx_remove: lines 819, 821-824, 831
      [] o = "remove" /\ p = "idle" -> <<"lockS">>
      [] o = "remove" /\ p = "rm_loop" /\ q = "rm_wake" ->
            <<"lockC", "wState", "unlockC">>
      [] o = "remove" /\ p = "rm_loop" /\ q # "rm_wake" -> <<"unlockS">>
      [] OTHER -> <<>>

\* the locks a context holds between two of its steps: rpmsg_omx_remove keeps
\* omxserv->lock for its loop (lines 819-831)
HeldAt(o, p) ==
    IF o = "remove" /\ p \in {"rm_loop", "rm_wake"} THEN {"S"} ELSE {}

\* the locks held after the events of tr, when held were held before
RECURSIVE HeldAfter(_, _)
HeldAfter(tr, held) ==
    IF tr = <<>> THEN held
    ELSE HeldAfter(Tail(tr),
           CASE Head(tr) = "lockS" -> held \cup {"S"}
             [] Head(tr) = "lockC" -> held \cup {"C"}
             [] Head(tr) = "unlockS" -> held \ {"S"}
             [] Head(tr) = "unlockC" -> held \ {"C"}
             [] OTHER -> held)

\* the steps the contexts of T, rpmsg_omx_cb and rpmsg_omx_remove take in a
\* transition, each as <<operation, program point before, program point after>>
StepsTaken(T) ==
    {<<op'[t], "call", pc'[t]>> :
        t \in {u \in T : Idle(u) /\ (nops' # nops \/ ndma' # ndma)}}
    \cup {<<op[t], pc[t], pc'[t]>> :
        t \in {u \in T : ~Idle(u) /\ pc'[u] # pc[u]}}
    \cup (IF cbpc' # cbpc THEN {<<"cb", IF cbpc = "idle" THEN "call" ELSE cbpc,
                                  cbpc'>>} ELSE {})
    \cup (IF enq' # enq THEN {<<"cb", "call", "idle">>} ELSE {})
    \cup (IF rmpc' # rmpc THEN {<<"remove", rmpc, rmpc'>>} ELSE {})

(***************************************************************************)
(* the system                                                              *)
(***************************************************************************)
OpenRest(t) ==
    \/ open_lock(t) \/ open_wait(t) \/ open_relock(t) \/ open_init(t)

OpenSteps(t) ==
    \/ rpmsg_omx_open(t) \/ OpenRest(t)

ConnectRest(t) ==
    \/ cn_chk(t) \/ cn_send(t) \/ cn_wait(t) \/ cn_fin(t)

ConnectSteps(t) ==
    \/ \E c \in Conns : rpmsg_omx_connect(t, c)
    \/ ConnectRest(t)

ReadSteps(t) ==
    \/ \E c \in Conns : rpmsg_omx_read(t, c)
    \/ rd_queue(t) \/ rd_wait(t) \/ rd_take(t)

PollSteps(t) ==
    \/ \E c \in Conns : rpmsg_omx_poll(t, c)
    \/ poll_ret(t)

\* the steps of write after the call, the message naming handles of F
WriteRest(t, F) ==
    \/ \E fd \in F : wr_find(t, fd)
    \/ wr_da(t) \/ wr_send(t)

WriteSteps(t) ==
    \/ \E c \in Conns : rpmsg_omx_write(t, c)
    \/ WriteRest(t, Fds)

PinRest(t) ==
    \/ pin_idr(t) \/ pin_rem(t)

PinSteps(t) ==
    \/ \E c \in Conns, fd \in Fds : rpmsg_omx_pin_buffer(t, c, fd)
    \/ PinRest(t)

UnpinSteps(t) ==
    \/ \E c \in Conns, fd \in Fds : rpmsg_omx_unpin_buffer(t, c, fd)
    \/ unpin_rem(t)

ReleaseRest(t) ==
    \/ rel_send(t) \/ rel_list(t)

ReleaseSteps(t) ==
    \/ \E c \in Conns : rpmsg_omx_release(t, c)
    \/ rel_send(t) \/ rel_list(t)

\* the receive context, fed the frames of F
CbSteps(F) ==
    \E c \in Conns :
       \/ \E f \in F : rpmsg_omx_cb(c, f)
       \/ cb_lock(c) \/ cb_complete(c)

\* the remoteproc context
ServiceSteps ==
    \/ rpmsg_omx_probe \/ remove_clean
    \/ rpmsg_omx_remove \/ remove_fail \/ remove_wake \/ remove_end

\* no instance has been created yet: open is the first one of the behaviour
OneSlot == FreeSlots = Conns

\* a single client context
OneThread == {"t1"}

\* a single dma-buf, one that remoteproc has a device mapping for
OneFd == {3}

Next ==
    \/ \E t \in Threads :
         \/ OpenSteps(t) \/ ConnectSteps(t) \/ ReadSteps(t) \/ PollSteps(t)
         \/ WriteSteps(t) \/ PinSteps(t) \/ UnpinSteps(t) \/ ReleaseSteps(t)
    \/ CbSteps(RxFrames)
    \/ ServiceSteps

Spec == Init /\ [][Next]_vars

\* The driver with one instance and the client calls open, connect and close,
\* made from one context.
NextConnect ==
    \/ \E t \in OneThread :
         \/ OneSlot /\ rpmsg_omx_open(t)
         \/ OpenRest(t)
         \/ ConnectSteps(t) \/ ReleaseSteps(t)
    \/ CbSteps(RspFrames \cup BadFrames)
    \/ ServiceSteps

SpecConnect == Init /\ [][NextConnect]_vars

\* The driver with one instance that one context opens and two contexts call
\* connect on, at the same time or one after the other.
NextTwoConnects ==
    \/ \E t \in OneThread :
         \/ OneSlot /\ rpmsg_omx_open(t)
         \/ OpenRest(t)
    \/ \E t \in Threads :
         \/ nops < MaxOpsTwo /\ \E c \in Conns : rpmsg_omx_connect(t, c)
         \/ ConnectRest(t)
    \/ CbSteps(RspFrames)
    \/ ServiceSteps

SpecTwoConnects == Init /\ [][NextTwoConnects]_vars

\* The driver with one instance and the client calls open, connect, read and
\* poll, made from one context.
NextRead ==
    \/ \E t \in OneThread :
         \/ OneSlot /\ rpmsg_omx_open(t)
         \/ OpenRest(t)
         \/ ConnectSteps(t) \/ ReadSteps(t) \/ PollSteps(t)
    \/ CbSteps(RspFrames \cup RawFrames)
    \/ ServiceSteps

SpecRead == Init /\ [][NextRead]_vars

\* The driver with one instance and the client calls open, connect, pin and
\* write, made from one context on one dma-buf.
NextWrite ==
    \/ \E t \in OneThread :
         \/ /\ nops + ndma < MaxOps
            /\ \/ OneSlot /\ rpmsg_omx_open(t)
               \/ \E c \in Conns :
                    \/ rpmsg_omx_connect(t, c) \/ rpmsg_omx_write(t, c)
                    \/ \E fd \in OneFd : rpmsg_omx_pin_buffer(t, c, fd)
         \/ OpenRest(t) \/ ConnectRest(t) \/ WriteRest(t, OneFd) \/ PinRest(t)
    \/ CbSteps(RspFrames)
    \/ ServiceSteps

SpecWrite == Init /\ [][NextWrite]_vars

\* The driver with one instance and the client calls open, connect, pin, unpin,
\* write and close, made from one context, while the remote processor stays up.
NextPin ==
    \/ \E t \in OneThread :
         \/ /\ nops + ndma < MaxOpsPin
            /\ \/ OneSlot /\ rpmsg_omx_open(t)
               \/ \E c \in Conns :
                    \/ rpmsg_omx_connect(t, c) \/ rpmsg_omx_write(t, c)
                    \/ rpmsg_omx_release(t, c)
                    \/ \E fd \in Fds :
                         \/ rpmsg_omx_pin_buffer(t, c, fd)
                         \/ rpmsg_omx_unpin_buffer(t, c, fd)
         \/ open_lock(t) \/ open_init(t)
         \/ ConnectRest(t) \/ WriteRest(t, Fds) \/ PinRest(t)
         \/ unpin_rem(t) \/ ReleaseRest(t)
    \/ CbSteps(RspFrames)

SpecPin == Init /\ [][NextPin]_vars

\* The driver with up to two instances and the client calls open, connect, write
\* and close, made from one context, while the remote processor accepts every
\* connection, crashes and comes back.  No buffer is pinned, so that no handle
\* of a message is found.
NextCrash ==
    \/ \E t \in OneThread :
         \/ /\ nops < MaxOpsCrash
            /\ \/ rpmsg_omx_open(t)
               \/ \E c \in Conns :
                    \/ rpmsg_omx_connect(t, c) \/ rpmsg_omx_write(t, c)
                    \/ rpmsg_omx_release(t, c)
         \/ OpenRest(t) \/ ConnectRest(t) \/ ReleaseRest(t)
         \/ \E fd \in OneFd : wr_find(t, fd)
         \/ wr_send(t)
    \/ CbSteps(RspAccept)
    \/ ServiceSteps

SpecCrash == Init /\ [][NextCrash]_vars

\* The driver with up to two instances and the client calls open and close, made
\* from two contexts, while the remote processor crashes and comes back.  No
\* instance is ever connected, so that close sends nothing.
NextReopen ==
    \/ \E t \in Threads :
         \/ /\ nops < MaxOpsCrash
            /\ \/ rpmsg_omx_open(t)
               \/ \E c \in Conns : rpmsg_omx_release(t, c)
         \/ OpenRest(t) \/ rel_list(t)
    \/ ServiceSteps

\* A context that runs open goes on when it can: when omxserv->comp is done it
\* wakes up, and it gets omxserv->lock when the lock is free.  The handling of a
\* crash, once begun, runs to its end.
FairReopen ==
    /\ \A t \in Threads :
         /\ WF_vars(open_wait(t) /\ comp)
         /\ WF_vars(open_lock(t))
         /\ WF_vars(open_relock(t))
         /\ WF_vars(open_init(t))
    /\ WF_vars(remove_fail \/ remove_wake \/ remove_end)

SpecReopen == Init /\ [][NextReopen]_vars /\ FairReopen

\* open, connect, read, write, poll and release of one client on one instance,
\* the dispatcher and the crash handling, within MaxOpsLocks calls
NextLocks ==
    \/ \E t \in OneThread :
         \/ /\ nops < MaxOpsLocks
            /\ \/ OneSlot /\ rpmsg_omx_open(t)
               \/ \E c \in Conns :
                    \/ rpmsg_omx_connect(t, c) \/ rpmsg_omx_read(t, c)
                    \/ rpmsg_omx_write(t, c) \/ rpmsg_omx_poll(t, c)
                    \/ rpmsg_omx_release(t, c)
         \/ OpenRest(t) \/ ConnectRest(t) \/ ReleaseRest(t)
         \/ rd_queue(t) \/ rd_wait(t) \/ rd_take(t) \/ poll_ret(t)
         \/ (\E fd \in OneFd : wr_find(t, fd)) \/ wr_send(t)
    \/ CbSteps(RspAccept \cup RawFrames)
    \/ ServiceSteps

SpecLocks == Init /\ [][NextLocks]_vars

\* two clients share one open file and call the buffer ioctls on it
NextUnpin ==
    \E t \in Threads :
       \/ /\ nops + ndma < MaxOpsPin
          /\ \/ OneSlot /\ rpmsg_omx_open(t)
             \/ \E c \in Conns :
                  \/ rpmsg_omx_release(t, c)
                  \/ \E fd \in OneFd :
                       \/ rpmsg_omx_pin_buffer(t, c, fd)
                       \/ rpmsg_omx_unpin_buffer(t, c, fd)
       \/ open_lock(t) \/ open_init(t)
       \/ PinRest(t) \/ unpin_rem(t) \/ rel_list(t)

SpecUnpin == Init /\ [][NextUnpin]_vars

\* one client connects and reads while the remote processor sends frames of
\* every kind, well-formed or not
NextFrames ==
    \/ \E t \in OneThread :
         \/ OneSlot /\ rpmsg_omx_open(t)
         \/ open_lock(t) \/ open_init(t)
         \/ ConnectSteps(t) \/ ReadSteps(t)
    \/ CbSteps(RxFrames)

SpecFrames == Init /\ [][NextFrames]_vars

\* one client opens an instance and connects it; then two clients read from it
\* at the same time while raw frames arrive
NextTwoReads ==
    \/ \E t \in OneThread :
         \/ nops < MaxOps /\ OneSlot /\ rpmsg_omx_open(t)
         \/ open_lock(t) \/ open_init(t)
         \/ nops < MaxOps /\ \E c \in Conns : rpmsg_omx_connect(t, c)
         \/ ConnectRest(t)
    \/ \E t \in Threads :
         \/ nops < MaxOps /\ \E c \in Conns : rpmsg_omx_read(t, c)
         \/ rd_queue(t) \/ rd_wait(t) \/ rd_take(t)
    \/ CbSteps(RspAccept \cup RawFrames)

SpecTwoReads == Init /\ [][NextTwoReads]_vars

(***************************************************************************)
(* Properties                                                              *)
(***************************************************************************)
\* the moves of omx->state the driver is meant to make
StateMoves ==
    {<<OMX_UNCONNECTED, OMX_CONNECTED>>, <<OMX_UNCONNECTED, OMX_FAIL>>,
     <<OMX_CONNECTED, OMX_FAIL>>}

\* C1: in every step, whoever takes it, the state of an instance that is not
\* being freed either stays what it is or moves Unconnected->Connected,
\* Unconnected->Failed or Connected->Failed; so a Failed instance stays Failed,
\* also over a re-attach and over later connect responses.
C1_StateMoves ==
    [][\A c \in Conns :
         (inst'[c] # "closed" /\ state'[c] # state[c])
            => <<state[c], state'[c]>> \in StateMoves]_vars

\* C1 witness: an open instance that a crash made Failed is still Failed after
\* the remote processor has re-attached
C1_Witness ==
    \E c \in Conns :
        /\ inst[c] = "open" /\ state[c] = OMX_FAIL
        /\ ncrash = 1 /\ rmpc = "idle" /\ rpdev /\ comp

\* C2: handling one well-formed connect response: the step that reads it sets
\* dst to the offered address whatever the status and leaves the signal alone;
\* the step under the lock makes the state Failed on an error status, Connected
\* on an OK status unless it was Failed, which it then stays, and leaves the
\* signal alone; the last step releases the signal once.
C2_ConnectResponse ==
    [][/\ (cbpc = "idle" /\ cbpc' = "cb_state")
            => /\ dst'[cbomx'] = cbmsg'.addr
               /\ reply_arrived' = reply_arrived
               /\ state' = state
       /\ (cbpc = "cb_state" /\ cbpc' = "cb_complete" /\ inst[cbomx] # "closed")
            => /\ state'[cbomx] =
                    IF cbmsg.status # 0 THEN OMX_FAIL
                    ELSE IF state[cbomx] = OMX_FAIL THEN OMX_FAIL
                    ELSE OMX_CONNECTED
               /\ reply_arrived' = reply_arrived
               /\ dst' = dst
       /\ (cbpc = "cb_complete" /\ cbpc' = "idle" /\ inst[cbomx] # "closed")
            => /\ reply_arrived'[cbomx] =
                    IF reply_arrived[cbomx] = DONE_ALL THEN DONE_ALL
                    ELSE reply_arrived[cbomx] + 1
               /\ state' = state
               /\ dst' = dst]_vars

\* C2 witness: an OK response offering a new address has been handled on an
\* instance that a crash had already made Failed
C2_Witness ==
    /\ cbpc = "cb_complete" /\ cbmsg.status = 0
    /\ inst[cbomx] = "open" /\ state[cbomx] = OMX_FAIL
    /\ ncrash = 1 /\ dst[cbomx] = cbmsg.addr

\* C3: when connect tests the state and finds it Connected, it returns
\* -EISCONN in that step: no request has been sent, the signal is not waited
\* on, and state and dst are what they were.
C3_AlreadyConnected ==
    [][\A t \in Threads :
         (pc[t] = "cn_chk" /\ pc'[t] # "cn_chk"
            /\ state[omx[t]] = OMX_CONNECTED)
            => /\ pc'[t] = "ret" /\ ret'[t] = Err("EISCONN")
               /\ ~loc'[t].sent
               /\ reply_arrived' = reply_arrived
               /\ state' = state /\ dst' = dst]_vars

\* C3 witness: a connect on a Connected instance has returned -EISCONN
C3_Witness ==
    \E t \in Threads :
        /\ pc[t] = "ret" /\ op[t] = "connect" /\ ret[t] = Err("EISCONN")
        /\ state[omx[t]] = OMX_CONNECTED /\ ~loc[t].sent

\* C4: a connect that has sent its request and whose instance the crash
\* handling has marked Failed finds the signal released once the crash handling
\* has passed the instance, and returns -ENXIO whatever its wait returned; a
\* connect that finds the state Failed when it is about to send returns -ENXIO
\* and sends nothing.
C4_CrashDuringConnect ==
    /\ [](\A t \in Threads :
            (pc[t] = "cn_wait" /\ loc[t].hit /\ rmcur # omx[t])
               => reply_arrived[omx[t]] = DONE_ALL)
    /\ [][\A t \in Threads :
            /\ (pc[t] = "cn_fin" /\ pc'[t] = "ret" /\ loc[t].hit)
                 => ret'[t] = Err("ENXIO")
            /\ (pc[t] = "cn_send" /\ pc'[t] # "cn_send"
                   /\ state[omx[t]] = OMX_FAIL)
                 => /\ pc'[t] = "ret" /\ ret'[t] = Err("ENXIO")
                    /\ ~loc'[t].sent]_vars

\* C4 witness: a connect that sent its request has returned -ENXIO and no
\* connect response was ever handled: the crash made the instance Failed while
\* the connect was pending
C4_Witness ==
    \E t \in Threads :
        /\ pc[t] = "ret" /\ op[t] = "connect" /\ ret[t] = Err("ENXIO")
        /\ loc[t].sent /\ nrx = 0 /\ ncrash = 1
        /\ state[omx[t]] = OMX_FAIL

\* C5, as stated: a connect that sent its request on an Unconnected instance
\* and whose wait ran the 5 seconds with no connect response and no crash
\* handled during the wait returns -ETIMEDOUT, and the state is Unconnected.
C5_TimeoutAsStated ==
    [][\A t \in Threads :
         (pc[t] = "cn_fin" /\ pc'[t] = "ret" /\ loc[t].unc
            /\ loc[t].wret = Ok(0) /\ ~loc[t].early)
            => /\ ret'[t] = Err("ETIMEDOUT")
               /\ state'[omx[t]] = OMX_UNCONNECTED]_vars

\* C5, amended: a connect that sent its request on an Unconnected instance and
\* whose wait ran the 5 seconds returns -ETIMEDOUT with the state Unconnected,
\* provided no connect response and no crash is handled from the moment the
\* request is sent to the moment connect reads the state again, after the wait.
C5_Timeout ==
    [][\A t \in Threads :
         (pc[t] = "cn_fin" /\ pc'[t] = "ret" /\ loc[t].unc
            /\ loc[t].wret = Ok(0) /\ ~loc[t].late)
            => /\ ret'[t] = Err("ETIMEDOUT")
               /\ state'[omx[t]] = OMX_UNCONNECTED]_vars

\* C5 witness: a connect that sent its request has returned -ETIMEDOUT on an
\* instance that is Unconnected, with no connect response and no crash at all
C5_Witness ==
    \E t \in Threads :
        /\ pc[t] = "ret" /\ op[t] = "connect" /\ ret[t] = Err("ETIMEDOUT")
        /\ loc[t].sent /\ nrx = 0 /\ ncrash = 0
        /\ state[omx[t]] = OMX_UNCONNECTED

\* d is the first bytes of the frame f, and not none of them
IsPrefixOf(d, f) == d # <<>> /\ Len(d) <= Len(f) /\ d = SubSeq(f, 1, Len(d))

\* a read of context t returns in this step with a byte count
ReadReturnsData(t) ==
    /\ pc[t] \in {"rd_queue", "rd_take"} /\ pc'[t] = "ret"
    /\ ~IsErr(ret'[t])

\* C6, as stated: on an instance that is not Failed, the k-th read that returns
\* a byte count returns the first bytes of the k-th frame that was queued.
C6_FifoAsStated ==
    [][\A t \in Threads :
         ReadReturnsData(t)
            => /\ nokrd'[omx[t]] <= Len(enq[omx[t]])
               /\ IsPrefixOf(loc'[t].data, enq[omx[t]][nokrd'[omx[t]]])]_vars

\* C6, amended: the queue of an instance always holds, in arrival order, exactly
\* the frames queued and not yet taken by a read; the k-th read that takes a
\* frame off the queue takes the k-th frame that was queued, and if it returns
\* a byte count it returns that many of its first bytes.  (A read whose copy to
\* the caller fails has taken its frame all the same.)
C6_Fifo ==
    /\ [](\A c \in Conns :
            inst[c] # "closed"
               => /\ ndeq[c] <= Len(enq[c])
                  /\ queue[c] = SubSeq(enq[c], ndeq[c] + 1, Len(enq[c])))
    /\ [][\A t \in Threads :
            ReadReturnsData(t)
               => /\ ndeq'[omx[t]] = ndeq[omx[t]] + 1
                  /\ IsPrefixOf(loc'[t].data, enq[omx[t]][ndeq'[omx[t]]])
                  /\ ret'[t].val = Len(loc'[t].data)]_vars

\* C6 witness: the second of two reads on a Connected instance has returned the
\* first byte of the second of two frames
C6_Witness ==
    \E t \in Threads :
        /\ pc[t] = "ret" /\ op[t] = "read" /\ ret[t] = Ok(1)
        /\ state[omx[t]] = OMX_CONNECTED
        /\ Len(enq[omx[t]]) = 2 /\ ndeq[omx[t]] = 2 /\ nokrd[omx[t]] = 2
        /\ loc[t].data = Prefix(enq[omx[t]][2], 1)

\* C7: a read that slept on an empty queue when the crash handling marked its
\* instance Failed can go on (the condition it waits for is true), and returns
\* -ENXIO: not -EAGAIN, not a frame, not any other result.
C7_CrashWakesRead ==
    /\ [](\A t \in Threads :
            (pc[t] = "rd_wait" /\ loc[t].hit)
               => read_wakeup(queue[omx[t]], state[omx[t]]))
    /\ [][\A t \in Threads :
            (pc[t] \in {"rd_wait", "rd_take"} /\ loc[t].hit)
               => /\ pc'[t] \in {"rd_wait", "rd_take", "ret"}
                  /\ pc'[t] = "ret" => ret'[t] = Err("ENXIO")]_vars

\* C7 witness: a read that the crash found asleep on an empty queue has
\* returned -ENXIO
C7_Witness ==
    \E t \in Threads :
        /\ pc[t] = "ret" /\ op[t] = "read" /\ ret[t] = Err("ENXIO")
        /\ loc[t].hit /\ ncrash = 1

\* C8, as stated: a read that finds its instance Failed and a frame on the
\* queue returns the first bytes of the oldest queued frame, not an error.
C8_DrainBeforeFail ==
    [][\A t \in Threads :
         (pc[t] \in {"rd_queue", "rd_take"} /\ pc'[t] = "ret"
            /\ state[omx[t]] = OMX_FAIL /\ queue[omx[t]] # <<>>)
            => /\ ~IsErr(ret'[t])
               /\ IsPrefixOf(loc'[t].data, Head(queue[omx[t]]))]_vars

\* C9: the readiness query reports readable exactly if it finds the queue
\* non-empty, and writable; then, if it finds the state Failed, it reports the
\* error condition alone, and otherwise what it had.
C9_Poll ==
    [][\A t \in Threads :
         /\ (pc[t] # "poll_state" /\ pc'[t] = "poll_state")
              => /\ {POLLOUT, POLLWRNORM} \subseteq loc'[t].mask
                 /\ POLLERR \notin loc'[t].mask
                 /\ (POLLIN \in loc'[t].mask) = (queue[omx'[t]] # <<>>)
                 /\ (POLLRDNORM \in loc'[t].mask) = (queue[omx'[t]] # <<>>)
         /\ (pc[t] = "poll_state" /\ pc'[t] = "ret")
              => loc'[t].mask = IF state[omx[t]] = OMX_FAIL THEN {POLLERR}
                                ELSE loc[t].mask]_vars

\* C9 witness: the query has reported the error condition alone on a Failed
\* instance that has a frame queued
C9_Witness ==
    \E t \in Threads :
        /\ pc[t] = "ret" /\ op[t] = "poll" /\ loc[t].mask = {POLLERR}
        /\ state[omx[t]] = OMX_FAIL /\ queue[omx[t]] # <<>>

\* the errors of a write that C10 names: not connected, a buffer count outside
\* 0..3, a handle that is not registered or cannot be converted, OMX_FAIL
WriteErrors == {"ENOTCONN", "EINVAL", "EIO", "ENXIO"}

\* C10: when a write has returned, the transport has taken a frame of it
\* exactly if it returned a byte count; and if it returned one of the errors
\* above, or failed to copy the message in, no frame was given to the
\* transport at all.
C10_WriteSends ==
    \A t \in Threads :
        (pc[t] = "ret" /\ op[t] = "write")
           => /\ loc[t].sent = ~IsErr(ret[t])
              /\ loc[t].sent => loc[t].tried
              /\ ret[t].err \in WriteErrors \cup {"EFAULT"} => ~loc[t].tried

\* C10 witness: a write found the instance Failed when it was about to send
\* and has returned -ENXIO with no frame given to the transport
C10_Witness ==
    \E t \in Threads :
        /\ pc[t] = "ret" /\ op[t] = "write" /\ ret[t] = Err("ENXIO")
        /\ ~loc[t].tried /\ loc[t].maptype = 0
        /\ state[omx[t]] = OMX_FAIL

\* what remoteproc answers for the dma-buf a handle names
DeviceAddress(h) == rproc_pa_to_da(sg_dma_address(h))

\* the step in which a write looks the handle h up: it goes on to the
\* conversion, or returns
LooksUp(t, h) ==
    /\ pc[t] = "wr_find" /\ pc'[t] # "wr_find"
    /\ loc'[t].fd = h

\* the step in which a write converts the address of the handle it found: it
\* goes on, or returns
Converts(t) == pc[t] = "wr_da" /\ pc'[t] # "wr_da"

\* the step in which unpin is called on the handle h
CallsUnpin(t, h) ==
    /\ Idle(t) /\ ndma' = ndma + 1
    /\ op'[t] = "unpin" /\ loc'[t].fd = h

\* the laws of pin, unpin and translate that do not depend on the conversion: a
\* handle that is pinned is found by a translation, a handle that is not pinned
\* is not found (EIO), and the unpin of a handle that is not pinned fails with
\* EINVAL and leaves the registry as it was
RegistryLaws ==
    \A t \in Threads, h \in Fds :
        /\ LooksUp(t, h) =>
             IF h \in pinned[omx[t]]
               THEN pc'[t] = "wr_da"
               ELSE pc'[t] = "ret" /\ ret'[t] = Err("EIO")
        /\ CallsUnpin(t, h) /\ h \notin pinned[omx'[t]] =>
             /\ pc'[t] = "ret" /\ ret'[t] = Err("EINVAL")
             /\ UNCHANGED <<dma_idr, dma, pinned>>

\* C11 as the specification words it: between its successful pin and its unpin
\* every translation of a handle on a connection that has not failed succeeds
\* and gives the same device address.  The conversion fails for a dma-buf that
\* remoteproc has no device mapping for.
C11_TranslateAsStated ==
    [][/\ RegistryLaws
       /\ \A t \in Threads :
            Converts(t) /\ loc[t].fd \in pinned[omx[t]]
                        /\ state[omx[t]] # OMX_FAIL =>
                /\ pc'[t] # "ret"
                /\ loc'[t].da = DeviceAddress(loc[t].fd).val]_vars

\* C11: between its successful pin and its unpin every translation of a handle
\* on a connection that has not failed finds the handle and gives what
\* remoteproc answers for its dma-buf, each time the same: the device address,
\* or the error of the conversion.  After the unpin a translation of the handle
\* fails with EIO, and the unpin of a handle that is not pinned fails with
\* EINVAL and leaves the registry unchanged.
C11_Translate ==
    [][/\ RegistryLaws
       /\ \A t \in Threads :
            Converts(t) /\ loc[t].fd \in pinned[omx[t]]
                        /\ state[omx[t]] # OMX_FAIL =>
                IF IsErr(DeviceAddress(loc[t].fd))
                  THEN pc'[t] = "ret" /\ ret'[t] = DeviceAddress(loc[t].fd)
                  ELSE /\ pc'[t] # "ret"
                       /\ loc'[t].da = DeviceAddress(loc[t].fd).val]_vars

\* a write has translated a pinned handle to the device address of its dma-buf
C11_Witness ==
    \E t \in Threads :
        /\ pc[t] = "wr_send"
        /\ loc[t].fd \in pinned[omx[t]]
        /\ ~IsErr(DeviceAddress(loc[t].fd))
        /\ loc[t].da = DeviceAddress(loc[t].fd).val

\* a step of a pin ioctl of the context t: the call, or one of its later steps
PinStep(t) ==
    \/ Idle(t) /\ ndma' = ndma + 1 /\ op'[t] = "pin"
    \/ pc[t] \in {"pin_idr", "pin_rem"} /\ pc'[t] # pc[t]

\* the descriptors an idr holds
Registered(idr) == {idr[id] : id \in DOMAIN idr}

\* every descriptor that is in an idr holds all it was given, and every other
\* one has given all of it back, once
NothingLeaked(heap, idrs) ==
    \A p \in DOMAIN heap :
        /\ heap[p].over = 0
        /\ heap[p].held =
             IF \E c \in Conns : p \in Registered(idrs[c]) THEN DmaRes ELSE {}

\* C12: a pin of a handle the registry already holds fails; no step of it
\* changes what a handle held before maps to, and when it returns the registry
\* has the keys it had before the call and everything the call acquired has been
\* given back.  (Between two calls the keys of the registry are the handles
\* pinned and not unpinned.)
C12_RepinRejected ==
    /\ [](\A c \in Conns :
            (\A t \in Threads : Idle(t)) => DOMAIN dma_idr[c] = pinned[c])
    /\ [][\A t \in Threads :
            PinStep(t) /\ loc'[t].fd \in pinned[omx'[t]] =>
               /\ pinned' = pinned
               /\ \A k \in pinned[omx'[t]] :
                     /\ k \in DOMAIN dma_idr'[omx'[t]]
                     /\ dma_idr'[omx'[t]][k] = dma_idr[omx'[t]][k]
               /\ pc'[t] = "ret" =>
                     /\ IsErr(ret'[t])
                     /\ DOMAIN dma_idr'[omx'[t]] = pinned[omx'[t]]
                     /\ NothingLeaked(dma', dma_idr')]_vars

\* a pin of a pinned handle got another id, gave it back and returned EINVAL;
\* its descriptor holds nothing any more
C12_Witness ==
    \E t \in Threads :
        /\ op[t] = "pin" /\ pc[t] = "ret" /\ ret[t] = Err("EINVAL")
        /\ loc[t].fd \in pinned[omx[t]]
        /\ loc[t].id # loc[t].fd
        /\ dma[loc[t].dma].held = {}
        /\ dma_idr[omx[t]][loc[t].fd] # loc[t].dma

\* the step in which a call is about to hand a frame to rpmsg_send_offchannel:
\* connect, write and release do so unless the state is OMX_FAIL
Transmits(t) ==
    /\ pc[t] \in {"cn_send", "wr_send", "rel_send"} /\ pc'[t] # pc[t]
    /\ state[omx[t]] # OMX_FAIL

\* C13: the handling of a crash keeps the service; when it ends the service is
\* still registered, omxserv->rpdev is NULL, omxserv->comp is not done and every
\* instance of the list is OMX_FAIL.  Whenever rpdev is NULL every instance of
\* the list is OMX_FAIL, and no connect, write or release hands a frame to
\* rpmsg_send_offchannel while rpdev is NULL.
C13_CrashKeepsService ==
    /\ [](~rpdev => \A c \in Live : state[c] = OMX_FAIL)
    /\ [][/\ rmpc # "idle" => registered'
          /\ rmpc = "rm_loop" /\ rmpc' = "idle" =>
               /\ registered' /\ ~rpdev' /\ ~comp'
               /\ \A c \in Live : state'[c] = OMX_FAIL
          /\ \A t \in Threads : Transmits(t) => rpdev]_vars

\* a crash has been handled with two instances open: both are OMX_FAIL, the
\* service is there and has no rpdev
C13_Witness ==
    /\ rmpc = "idle" /\ registered /\ ~rpdev /\ ~comp
    /\ Len(list) = 2
    /\ \A c \in Live : state[c] = OMX_FAIL

\* a step of an open of the context t: the call, or one of its later steps
OpenStep(t) ==
    \/ Idle(t) /\ nops' = nops + 1 /\ op'[t] = "open"
    \/ /\ pc[t] \in {"open_lock", "open_wait", "open_relock", "open_init"}
       /\ pc'[t] # pc[t]

\* C14: an open that fails has no effect.  Only the step after which open can no
\* longer fail adds an instance to the list or creates an endpoint.  When open
\* returns an error the list and the endpoints are as they were, the instance
\* has been freed and the caller does not hold omxserv->lock; without rpdev the
\* first test under the lock returns EBUSY to a non-blocking caller, before any
\* wait, and a wait that is interrupted returns ERESTARTSYS.
C14_FailedOpen ==
    [][\A t \in Threads :
         OpenStep(t) =>
            /\ list' # list \/ ept' # ept => pc'[t] = "open_init"
            /\ pc[t] = "open_init" => pc'[t] = "ret" /\ ret'[t] = Ok(0)
            /\ pc'[t] = "ret" /\ IsErr(ret'[t]) =>
                  /\ list' = list /\ ept' = ept
                  /\ servLock' \notin Threads
                  /\ \A c \in Conns : inst'[c] # "init"
                  /\ \A c \in Conns : (inst'[c] = "open") = (inst[c] = "open")
                  /\ pc[t] = "open_lock" =>
                        ret'[t] = IF rpdev THEN Err("ENOMEM") ELSE Err("EBUSY")
                  /\ pc[t] = "open_wait" => ret'[t] = Err("ERESTARTSYS")
                  /\ pc[t] = "open_relock" => rpdev /\ ret'[t] = Err("ENOMEM")]_vars

\* after a crash, with one instance in the list, a non-blocking open has
\* returned EBUSY
C14_Witness ==
    \E t \in Threads :
        /\ op[t] = "open" /\ pc[t] = "ret" /\ ret[t] = Err("EBUSY")
        /\ ~rpdev /\ registered
        /\ Len(list) = 1

\* the context t runs an open that found no rpdev and waits for it
OpenWaits(t) == pc[t] \in {"open_wait", "open_relock"}

\* no crash comes any more
NoMoreCrash == rmpc = "idle" /\ ncrash = MaxCrashes

\* the open of the context t has returned 0 with an instance that is in the
\* list and OMX_UNCONNECTED
OpenedNew(t) ==
    /\ op[t] = "open" /\ pc[t] = "ret" /\ ret[t] = Ok(0)
    /\ inst[omx[t]] = "open"
    /\ omx[t] \in Live
    /\ ept[omx[t]] = "live"
    /\ state[omx[t]] = OMX_UNCONNECTED

\* an open that waits has put nothing in the list and has no endpoint
WaitingOpenCreatesNothing ==
    \A t \in Threads :
        OpenWaits(t) =>
            /\ inst[omx[t]] = "init"
            /\ omx[t] \notin Live
            /\ ept[omx[t]] = "none"

\* C15 as the specification words it: once the rpdev is bound again and no crash
\* follows, an open that waited returns 0 with a new instance.  The creation of
\* the endpoint can fail.
C15_ReopenAsStated ==
    /\ []WaitingOpenCreatesNothing
    /\ \A t \in Threads :
         (OpenWaits(t) /\ rpdev /\ NoMoreCrash) ~> OpenedNew(t)

\* C15: a blocking open called while the service has no rpdev creates no
\* instance as long as it waits; once the rpdev is bound again and no crash
\* follows, the open returns: 0, with a new instance that is in the list and
\* OMX_UNCONNECTED, or ENOMEM, with nothing created, if the endpoint could not
\* be created.
C15_Reopen ==
    /\ []WaitingOpenCreatesNothing
    /\ \A t \in Threads :
         (OpenWaits(t) /\ rpdev /\ NoMoreCrash) ~>
            \/ OpenedNew(t)
            \/ /\ op[t] = "open" /\ pc[t] = "ret" /\ ret[t] = Err("ENOMEM")
               /\ omx[t] = NoOmx

\* an open that waited during the outage has returned 0 with a new instance
C15_Witness ==
    \E t \in Threads :
        /\ OpenedNew(t)
        /\ loc[t].waited
        /\ rpdev /\ ncrash > 0

\* C16: a read called on an instance that is OMX_FAIL, with nothing queued,
\* returns ENXIO, whether or not the caller asked for O_NONBLOCK: it does not
\* sleep and does not return EAGAIN.  (loc.failed says that the state was
\* OMX_FAIL when the read was called.)
C16_FailedRead ==
    /\ [](\A t \in Threads :
            pc[t] = "rd_wait" /\ loc[t].failed =>
               read_wakeup(queue[omx[t]], state[omx[t]]))
    /\ [][\A t \in Threads :
            /\ op[t] = "read" /\ loc[t].failed
            /\ pc[t] \in {"rd_queue", "rd_wait", "rd_take"}
            /\ queue[omx[t]] = <<>>
            /\ pc'[t] = "ret"
            => ret'[t] = Err("ENXIO")]_vars

\* the locks held just before the i-th event of tr
HeldBefore(tr, i, held) == HeldAfter(SubSeq(tr, 1, i - 1), held)

\* every access of the trace to state, dst or the queue is made with omx->lock
AccessesLocked(tr, held) ==
    \A i \in 1..Len(tr) : tr[i] \in Accesses => "C" \in HeldBefore(tr, i, held)

\* C17: every read and every write of omx->state, omx->dst and omx->queue that
\* connect, read, write, poll, release, rpmsg_omx_cb or rpmsg_omx_remove makes
\* is made while the context holds omx->lock.
C17_AccessesUnderLock ==
    [][\A s \in StepsTaken(OneThread) :
          s[1] # "open" =>
             AccessesLocked(StepTrace(s[1], s[2], s[3]), HeldAt(s[1], s[2]))]_vars

\* C18: a buffer that was pinned is released exactly once: no descriptor is
\* ever given back twice, a descriptor that is no longer registered holds
\* nothing once the call that took it out has returned, and of the unpin calls
\* that run together for one id at most one returns 0.
NeverReleasedTwice == \A p \in DOMAIN dma : dma[p].over = 0

\* the descriptors a running pin or unpin call is working on
InHand == {loc[t].dma : t \in {u \in Threads : ~Idle(u)}}

ReleasedWhenGone ==
    \A p \in DOMAIN dma :
        (\A c \in Conns : p \notin Registered(dma_idr[c])) /\ p \notin InHand
            => dma[p].held = {}

OneUnpinSucceeds ==
    \A t, u \in Threads :
        /\ t # u
        /\ pc[t] = "unpin_rem" /\ pc[u] = "unpin_rem"
        => loc[t].dma # loc[u].dma

C18_ReleasedOnce ==
    NeverReleasedTwice /\ ReleasedWhenGone /\ OneUnpinSucceeds

\* the frames the dispatcher has to drop: shorter than a header, fewer payload
\* bytes than hdr->len declares, a connect response too short for status and
\* addr, an unknown type
InvalidFrame(f) ==
    \/ f.len < HdrSize
    \/ f.len - HdrSize < f.hlen
    \/ f.type = OMX_CONN_RSP /\ f.hlen < RspSize
    \/ f.type \notin {OMX_CONN_RSP, OMX_RAW_MSG}

\* the i-th message queued on an instance holds only bytes its frame delivered
\* (each of them is i)
OnlyDeliveredBytes(msg, i) == \A k \in DOMAIN msg : msg[k] = i

\* C19: an invalid frame has no effect: the frame rpmsg_omx_cb acts on as a
\* connect response (it sets dst and state and completes reply_arrived from it)
\* is never an invalid one, and no message that was ever queued for read comes
\* from a frame that delivered fewer bytes than its header declares.
C19_InvalidDropped ==
    /\ cbpc # "idle" => ~InvalidFrame(cbmsg)
    /\ \A c \in Conns :
         \A i \in 1..Len(enq[c]) : OnlyDeliveredBytes(enq[c][i], i)

\* the events of a trace are in order: a sleep is made with no lock held,
\* omxserv->lock is taken with no lock held, omx->lock is taken alone or under
\* omxserv->lock, and only a lock that is held is given back
Disciplined(tr, held) ==
    \A i \in 1..Len(tr) :
        LET h == HeldBefore(tr, i, held)
        IN /\ tr[i] = "wait" => h = {}
           /\ tr[i] = "lockS" => h = {}
           /\ tr[i] = "lockC" => "C" \notin h
           /\ tr[i] = "unlockS" => "S" \in h
           /\ tr[i] = "unlockC" => "C" \in h

\* the program points at which a context sleeps: on omxserv->comp, on
\* omx->reply_arrived, on omx->readq
Sleeps(t) == pc[t] \in {"open_wait", "cn_wait", "rd_wait"}

\* C20: no lock is held across a sleep and the locks cannot deadlock.  Every
\* step keeps the order of the locks and sleeps with none held, and leaves held
\* what the next step of its context starts with; a sleeping context holds no
\* lock; omxserv->lock is held between steps only by rpmsg_omx_remove, which
\* can always take its next step, and a step that takes omxserv->lock is taken
\* when it is free.
C20_NoSleepUnderLock ==
    /\ [][\A s \in StepsTaken(OneThread) :
            LET tr == StepTrace(s[1], s[2], s[3])
            IN /\ Disciplined(tr, HeldAt(s[1], s[2]))
               /\ HeldAfter(tr, HeldAt(s[1], s[2])) = HeldAt(s[1], s[3])
               /\ (\E i \in 1..Len(tr) : tr[i] = "lockS") => servLock = NoLock
               /\ (\E i \in 1..Len(tr) : tr[i] = "wait") <=>
                     s[2] \in {"open_wait", "cn_wait", "rd_wait"}]_vars
    /\ [](\A t \in OneThread : Sleeps(t) => HeldAt(op[t], pc[t]) = {})
    /\ []((servLock = RmCtx) <=> ("S" \in HeldAt("remove", rmpc)))
    /\ [](servLock = RmCtx => ENABLED (remove_fail \/ remove_wake \/ remove_end))

\* a client sleeps, in connect or in read or in open, while rpmsg_omx_remove
\* holds omxserv->lock and is about to take omx->lock of the sleeper's instance
C20_Witness ==
    \E t \in OneThread :
        /\ pc[t] \in {"cn_wait", "rd_wait"}
        /\ servLock = RmCtx
        /\ rmpc = "rm_loop"
        /\ rmleft # <<>> /\ Head(rmleft) = omx[t]

\* C21: the endpoint of an instance is destroyed at most once, whatever the
\* order of open, crash, probe and release: rpmsg_destroy_ept is called at most
\* once on the omx->ept of one instance.
C21_EndpointDestroyedOnce == \A c \in Conns : eptfree[c] <= 1

\* what a read of an instance that is not OMX_FAIL may return: a frame,
\* EAGAIN, ERESTARTSYS or ENXIO (and EFAULT when the caller's buffer cannot be
\* written, ENOTCONN before any connect)
ReadResults == {"none", "EAGAIN", "ERESTARTSYS", "ENXIO", "EFAULT", "ENOTCONN"}

\* the read of the context t returns in this step
ReadReturns(t) ==
    /\ op[t] = "read"
    /\ pc[t] \in {"rd_queue", "rd_wait", "rd_take"}
    /\ pc'[t] = "ret"

\* C22: with several readers of one instance a read returns a frame, EAGAIN,
\* ERESTARTSYS or ENXIO, never EIO: a reader woken for a frame that another
\* reader took in the meantime does not fail, and a frame is taken from the
\* queue only when there is one.
C22_ReadersRace ==
    [][\A t \in Threads :
          ReadReturns(t) =>
             /\ ret'[t].err \in ReadResults
             /\ (pc[t] = "rd_take" /\ state[omx[t]] # OMX_FAIL)
                   => queue[omx[t]] # <<>>]_vars
====
